---- MODULE Spec2Model ----
(***************************************************************************)
(* Model of powerups.py: the power-up catalog and the PowerUpManager       *)
(* spawn / pick-up / expiry cycle, driven by caller-supplied timestamps.   *)
(*                                                                         *)
(* Time is counted in whole seconds.  A reference to a catalog entry is    *)
(* its 1-based position in the catalog list; None is the absent reference. *)
(* The two random draws of the code (random.uniform and random.choices)    *)
(* are nondeterministic choices: the operators that use them return the    *)
(* set of the manager states the call can produce.                         *)
(***************************************************************************)
EXTENDS Integers, Sequences, FiniteSets, TLC

\* ---- bounds of the model ------------------------------------------------
\* Largest timestamp a caller supplies.
MaxTime == 75
\* Latest construction time (the value of time.time() in __init__).
MaxStart == 5
\* Granularity, in seconds, of the timestamps and of the random delays.
Tick == 5
\* Largest timestamp supplied when spawn() is also called directly.
MaxTimeAPI == 50
\* Most direct spawn() calls the owner makes.
MaxSpawnCalls == 1
\* Largest step of the clock between two update calls of the endless loop.
MaxAdvance == 50

\* ---- the catalog ----------------------------------------------------------
None == 0

POWER_UP_DEFS ==
    << "Mega Multiplier", "Golden Banana", "Combo Frenzy", "Fever Time",
       "Perfect Shield", "Tempo Boost", "Time Warp", "Streak Saver",
       "Banana Magnet", "Score Burst", "Groove Guard", "Beat Freeze",
       "Drum Echo", "Banana Bloom", "Rhythm Rush", "Monkey March",
       "Tap Booster", "Beat Bonus", "Banana Trick", "Happy Hour" >>

\* The tier thresholds read as strict bounds (rank < 3, rank < 7, ...).
tier_for_rank_strict(rank) ==
    IF rank < 3 THEN << "Legendary", "#FF8000", 45 >>
    ELSE IF rank < 7 THEN << "Epic", "#A335EE", 35 >>
    ELSE IF rank < 12 THEN << "Rare", "#0070FF", 30 >>
    ELSE IF rank < 16 THEN << "Uncommon", "#1EFF00", 25 >>
    ELSE << "Common", "#BEBEBE", 20 >>

tier_for_rank(rank) ==
    IF rank <= 3 THEN << "Legendary", "#FF8000", 45 >>
    ELSE IF rank <= 7 THEN << "Epic", "#A335EE", 35 >>
    ELSE IF rank <= 12 THEN << "Rare", "#0070FF", 30 >>
    ELSE IF rank <= 16 THEN << "Uncommon", "#1EFF00", 25 >>
    ELSE << "Common", "#BEBEBE", 20 >>

POWER_UPS ==
    [ rank \in 1..Len(POWER_UP_DEFS) |->
        LET t == tier_for_rank(rank)
        IN  [ name |-> POWER_UP_DEFS[rank], rank |-> rank,
              tier |-> t[1], color |-> t[2], duration |-> t[3] ] ]

\* ---- the random sources ---------------------------------------------------
\* A wider jitter, uniform(20, 40), in place of uniform(25, 35).
uniform_20_40 == { u \in 20..40 : u % Tick = 0 }

\* random.uniform(25, 35): the delays on the model's time grid.
uniform_25_35 == { u \in 25..35 : u % Tick = 0 }

\* math.log(p.rank + 1) > 0 exactly when p.rank + 1 > 1.
weight_positive(p) == p.rank + 1 > 1

\* random.choices(powerups, weights, k=1)[0]: any entry of positive weight.
choices(powerups) == { i \in DOMAIN powerups : weight_positive(powerups[i]) }

\* The timestamps a caller can supply.
Times == { t \in 0..MaxTime : t % Tick = 0 }

\* ---- the manager ----------------------------------------------------------
VARIABLES spawned_powerup, active_powerup, active_ends_at, next_spawn_time,
          call, activation, spawn_calls, idle_since

\* call       : the last call made, [op, now, ret, again]; again is TRUE when
\*              the call repeats the previous call's operation and timestamp
\* activation : the last successful pick_up, [at, powerup]
\* spawn_calls: the number of direct spawn() calls made so far
\* idle_since : the timestamp of the call that last left the manager with
\*              nothing active: its construction, or the expiring update
vars == << spawned_powerup, active_powerup, active_ends_at, next_spawn_time,
           call, activation, spawn_calls, idle_since >>

Self == [ spawned_powerup |-> spawned_powerup,
          active_powerup  |-> active_powerup,
          active_ends_at  |-> active_ends_at,
          next_spawn_time |-> next_spawn_time ]

\* schedule_next_spawn that counts the delay from the expiry time instead of
\* from now.
schedule_from_expiry(self, now) ==
    { [ self EXCEPT !.next_spawn_time = self.active_ends_at + u ] :
      u \in uniform_25_35 }

schedule_next_spawn(self, now) ==
    { [ self EXCEPT !.next_spawn_time = now + u ] : u \in uniform_25_35 }

\* spawn that also stamps an expiry for the entry it puts on offer.
spawn_stamp_expiry(self) ==
    { [ self EXCEPT !.spawned_powerup = c,
                    !.active_ends_at  =
                        self.next_spawn_time + POWER_UPS[c].duration ] :
      c \in choices(POWER_UPS) }

\* spawn that activates the entry at once instead of putting it on offer.
spawn_and_activate(self) ==
    { [ self EXCEPT !.active_powerup = c ] : c \in choices(POWER_UPS) }

spawn(self) ==
    { [ self EXCEPT !.spawned_powerup = c ] : c \in choices(POWER_UPS) }

\* update with the expiry test written now > active_ends_at.
update_strict_expiry(self, now) ==
    LET expired == IF self.active_powerup # None /\ now > self.active_ends_at
                   THEN schedule_next_spawn(
                            [ self EXCEPT !.active_powerup = None ], now)
                   ELSE { self }
    IN  UNION { IF /\ s.spawned_powerup = None
                   /\ s.active_powerup = None
                   /\ now >= s.next_spawn_time
                THEN spawn(s)
                ELSE { s } : s \in expired }

\* update whose spawn test forgets now >= next_spawn_time.
update_spawn_early(self, now) ==
    LET expired == IF self.active_powerup # None /\ now >= self.active_ends_at
                   THEN schedule_next_spawn(
                            [ self EXCEPT !.active_powerup = None ], now)
                   ELSE { self }
    IN  UNION { IF /\ s.spawned_powerup = None
                   /\ s.active_powerup = None
                THEN spawn(s)
                ELSE { s } : s \in expired }

\* update whose spawn test forgets "not self.active_powerup".
update_spawn_while_active(self, now) ==
    LET expired == IF self.active_powerup # None /\ now >= self.active_ends_at
                   THEN schedule_next_spawn(
                            [ self EXCEPT !.active_powerup = None ], now)
                   ELSE { self }
    IN  UNION { IF /\ s.spawned_powerup = None
                   /\ now >= s.next_spawn_time
                THEN spawn(s)
                ELSE { s } : s \in expired }

\* update whose expiry test forgets now >= active_ends_at.
update_expire_at_once(self, now) ==
    LET expired == IF self.active_powerup # None
                   THEN schedule_next_spawn(
                            [ self EXCEPT !.active_powerup = None ], now)
                   ELSE { self }
    IN  UNION { IF /\ s.spawned_powerup = None
                   /\ s.active_powerup = None
                   /\ now >= s.next_spawn_time
                THEN spawn(s)
                ELSE { s } : s \in expired }

\* update whose spawn test forgets "not self.spawned_powerup".
update_respawn(self, now) ==
    LET expired == IF self.active_powerup # None /\ now >= self.active_ends_at
                   THEN schedule_next_spawn(
                            [ self EXCEPT !.active_powerup = None ], now)
                   ELSE { self }
    IN  UNION { IF /\ s.active_powerup = None
                   /\ now >= s.next_spawn_time
                THEN spawn(s)
                ELSE { s } : s \in expired }

\* update whose spawn test reads next_spawn_time as it was before the re-arm.
update_spawn_before_rearm(self, now) ==
    LET expired == IF self.active_powerup # None /\ now >= self.active_ends_at
                   THEN schedule_next_spawn(
                            [ self EXCEPT !.active_powerup = None ], now)
                   ELSE { self }
    IN  UNION { IF /\ s.spawned_powerup = None
                   /\ s.active_powerup = None
                   /\ now >= self.next_spawn_time
                THEN spawn(s)
                ELSE { s } : s \in expired }

\* update that also re-arms next_spawn_time after it has spawned.
update_rearm_on_spawn(self, now) ==
    LET expired == IF self.active_powerup # None /\ now >= self.active_ends_at
                   THEN schedule_next_spawn(
                            [ self EXCEPT !.active_powerup = None ], now)
                   ELSE { self }
    IN  UNION { IF /\ s.spawned_powerup = None
                   /\ s.active_powerup = None
                   /\ now >= s.next_spawn_time
                THEN UNION { schedule_next_spawn(t, now) : t \in spawn(s) }
                ELSE { s } : s \in expired }

\* update whose spawn test is now = next_spawn_time instead of >=.
update_exact_spawn_time(self, now) ==
    LET expired == IF self.active_powerup # None /\ now >= self.active_ends_at
                   THEN schedule_next_spawn(
                            [ self EXCEPT !.active_powerup = None ], now)
                   ELSE { self }
    IN  UNION { IF /\ s.spawned_powerup = None
                   /\ s.active_powerup = None
                   /\ now = s.next_spawn_time
                THEN spawn(s)
                ELSE { s } : s \in expired }

update(self, now) ==
    LET expired == IF self.active_powerup # None /\ now >= self.active_ends_at
                   THEN schedule_next_spawn(
                            [ self EXCEPT !.active_powerup = None ], now)
                   ELSE { self }
    IN  UNION { IF /\ s.spawned_powerup = None
                   /\ s.active_powerup = None
                   /\ now >= s.next_spawn_time
                THEN spawn(s)
                ELSE { s } : s \in expired }

\* pick_up that forgets to clear spawned_powerup.
pick_up_keep_spawned(self, now) ==
    IF self.spawned_powerup # None /\ self.active_powerup = None
    THEN [ self |-> [ self EXCEPT
                        !.active_powerup  = self.spawned_powerup,
                        !.active_ends_at  =
                            now + POWER_UPS[self.spawned_powerup].duration ],
           ret  |-> self.spawned_powerup ]
    ELSE [ self |-> self, ret |-> None ]

\* pick_up that forgets "not self.active_powerup".
pick_up_ignore_active(self, now) ==
    IF self.spawned_powerup # None
    THEN [ self |-> [ self EXCEPT
                        !.active_powerup  = self.spawned_powerup,
                        !.active_ends_at  =
                            now + POWER_UPS[self.spawned_powerup].duration,
                        !.spawned_powerup = None ],
           ret  |-> self.spawned_powerup ]
    ELSE [ self |-> self, ret |-> None ]

\* pick_up that forgets to add the duration to now.
pick_up_no_duration(self, now) ==
    IF self.spawned_powerup # None /\ self.active_powerup = None
    THEN [ self |-> [ self EXCEPT
                        !.active_powerup  = self.spawned_powerup,
                        !.active_ends_at  = now,
                        !.spawned_powerup = None ],
           ret  |-> self.spawned_powerup ]
    ELSE [ self |-> self, ret |-> None ]

pick_up(self, now) ==
    IF self.spawned_powerup # None /\ self.active_powerup = None
    THEN [ self |-> [ self EXCEPT
                        !.active_powerup  = self.spawned_powerup,
                        !.active_ends_at  =
                            now + POWER_UPS[self.spawned_powerup].duration,
                        !.spawned_powerup = None ],
           ret  |-> self.spawned_powerup ]
    ELSE [ self |-> self, ret |-> None ]

Assign(s) ==
    /\ spawned_powerup' = s.spawned_powerup
    /\ active_powerup'  = s.active_powerup
    /\ active_ends_at'  = s.active_ends_at
    /\ next_spawn_time' = s.next_spawn_time

\* __init__: nothing spawned or active, active_ends_at = 0.0, and the first
\* spawn scheduled from the construction time.
Init ==
    \E now \in { t \in Times : t <= MaxStart } :
      \E s \in schedule_next_spawn(
                  [ spawned_powerup |-> None, active_powerup |-> None,
                    active_ends_at |-> 0, next_spawn_time |-> 0 ], now) :
        /\ spawned_powerup = s.spawned_powerup
        /\ active_powerup  = s.active_powerup
        /\ active_ends_at  = s.active_ends_at
        /\ next_spawn_time = s.next_spawn_time
        /\ call = [ op |-> "init", now |-> now, ret |-> None, again |-> FALSE ]
        /\ activation = [ at |-> 0, powerup |-> None ]
        /\ spawn_calls = 0
        /\ idle_since = now

\* The caller's clock never goes back: the timestamps that can come next.
Timestamps(limit) == { t \in Times : t >= call.now /\ t <= limit }

UpdateAt(now) ==
    \E s \in update(Self, now) :
      /\ Assign(s)
      /\ call' = [ op |-> "update", now |-> now, ret |-> None,
                   again |-> (call.op = "update" /\ call.now = now) ]
      /\ idle_since' = IF active_powerup # None /\ s.active_powerup = None
                       THEN now
                       ELSE idle_since
      /\ UNCHANGED << activation, spawn_calls >>

PickUpAt(now) ==
    LET r == pick_up(Self, now)
    IN  /\ Assign(r.self)
        /\ call' = [ op |-> "pick_up", now |-> now, ret |-> r.ret,
                     again |-> FALSE ]
        /\ activation' = IF r.ret # None
                         THEN [ at |-> now, powerup |-> r.ret ]
                         ELSE activation
        /\ UNCHANGED << spawn_calls, idle_since >>

Update == \E now \in Timestamps(MaxTime) : UpdateAt(now)

PickUp == \E now \in Timestamps(MaxTime) : PickUpAt(now)

\* The manager as the game loop drives it: update and pick_up only.
Next == Update \/ PickUp

Spec == Init /\ [][Next]_vars

\* spawn() called by the owner of the manager, outside update.
SpawnCall ==
    /\ spawn_calls < MaxSpawnCalls
    /\ spawn_calls' = spawn_calls + 1
    /\ \E s \in spawn(Self) :
      /\ Assign(s)
      /\ call' = [ op |-> "spawn", now |-> call.now, ret |-> None,
                   again |-> FALSE ]
      /\ UNCHANGED << activation, idle_since >>

UpdateAPI == \E now \in Timestamps(MaxTimeAPI) : UpdateAt(now)

PickUpAPI == \E now \in Timestamps(MaxTimeAPI) : PickUpAt(now)

\* The whole public interface: update, pick_up and spawn.
NextAPI == UpdateAPI \/ PickUpAPI \/ SpawnCall

SpecAPI == Init /\ [][NextAPI]_vars

\* ---- properties -----------------------------------------------------------
\* The four fields of the manager.
\* ---- the endless game loop --------------------------------------------------
\* The loop of the demonstration entry point, run for ever: every iteration
\* advances the clock, calls update(now) and, when a power-up is on offer,
\* pick_up(now).  The timestamps grow without bound, so every stored
\* timestamp is kept relative to the latest update call: the code only adds
\* to timestamps and compares them with now, and a timestamp that now has
\* passed (written -1) stays passed for every later now.
Advances == { d \in 1..MaxAdvance : d % Tick = 0 }

Rebase(t, now) == IF t < now THEN -1 ELSE t - now

LiveUpdate ==
    /\ spawned_powerup = None
    /\ \E d \in Advances :
         LET now == call.now + d
         IN  \E s \in update(Self, now) :
               /\ Assign([ s EXCEPT
                             !.active_ends_at  = Rebase(@, now),
                             !.next_spawn_time = Rebase(@, now) ])
               /\ call' = [ op |-> "update", now |-> 0, ret |-> None,
                            again |-> FALSE ]
               /\ activation' = [ activation EXCEPT !.at = Rebase(@, now) ]
               /\ idle_since' =
                     IF active_powerup # None /\ s.active_powerup = None
                     THEN 0
                     ELSE Rebase(idle_since, now)
               /\ UNCHANGED spawn_calls

LivePickUp ==
    /\ spawned_powerup # None
    /\ PickUpAt(call.now)

NextLive == LiveUpdate \/ LivePickUp

\* The loop never stops: both of its calls keep being made.
SpecLive ==
    /\ Init
    /\ [][NextLive]_vars
    /\ WF_vars(LiveUpdate)
    /\ WF_vars(LivePickUp)

mgr == << spawned_powerup, active_powerup, active_ends_at, next_spawn_time >>

\* C1: pick_up(now) with something spawned and nothing active makes the
\* spawned entry the active one, sets active_ends_at = now + its duration,
\* clears spawned_powerup and returns that entry.
C1_PickUpActivates ==
    [][ ( /\ call'.op = "pick_up"
          /\ spawned_powerup # None
          /\ active_powerup = None )
        => /\ active_powerup' = spawned_powerup
           /\ active_ends_at' =
                 call'.now + POWER_UPS[spawned_powerup].duration
           /\ spawned_powerup' = None
           /\ call'.ret = spawned_powerup ]_vars

C1_Witness ==
    /\ call.op = "pick_up"
    /\ call.ret # None
    /\ active_powerup = call.ret
    /\ spawned_powerup = None
    /\ active_ends_at = call.now + POWER_UPS[call.ret].duration

\* C2: pick_up(now) with nothing spawned, or with a power-up already active,
\* returns None and leaves the four fields unchanged, whatever now is.
C2_PickUpNoOp ==
    [][ ( /\ call'.op = "pick_up"
          /\ (spawned_powerup = None \/ active_powerup # None) )
        => /\ call'.ret = None
           /\ mgr' = mgr ]_vars

\* A pick_up refused although a power-up is on offer, because one is active.
C2_Witness ==
    /\ call.op = "pick_up"
    /\ call.ret = None
    /\ spawned_powerup # None
    /\ active_powerup # None

\* C3: for a power-up of duration d activated at t0, an update(now) with
\* now < t0 + d keeps it active and keeps next_spawn_time, and update(t0 + d)
\* clears it and re-arms next_spawn_time within [t0 + d + 25, t0 + d + 35].
C3_Expiry ==
    [][ ( /\ call'.op = "update"
          /\ active_powerup # None )
        => LET t0 == activation.at
               d  == POWER_UPS[active_powerup].duration
           IN  /\ call'.now < t0 + d
                    => /\ active_powerup' = active_powerup
                       /\ next_spawn_time' = next_spawn_time
               /\ call'.now = t0 + d
                    => /\ active_powerup' = None
                       /\ next_spawn_time' \in (t0 + d + 25)..(t0 + d + 35)
      ]_vars

\* The update at exactly t0 + d has cleared the power-up and re-armed.
C3_Witness ==
    /\ call.op = "update"
    /\ activation.powerup # None
    /\ call.now = activation.at + POWER_UPS[activation.powerup].duration
    /\ active_powerup = None
    /\ next_spawn_time \in (call.now + 25)..(call.now + 35)

\* C4: update(now) spawns exactly when, after its expiry step, nothing is
\* spawned, nothing is active and now >= next_spawn_time.  (The expiry step
\* leaves spawned_powerup alone; the spawn leaves active_powerup and
\* next_spawn_time alone, so their values after the expiry step are the
\* primed ones.)
C4_SpawnIff ==
    [][ call'.op = "update"
        => ( (spawned_powerup' # spawned_powerup)
             <=> ( /\ spawned_powerup = None
                   /\ active_powerup' = None
                   /\ call'.now >= next_spawn_time' ) ) ]_vars

\* An update at exactly next_spawn_time, not a repetition, has spawned.
C4_Witness ==
    /\ call.op = "update"
    /\ ~call.again
    /\ call.now = next_spawn_time
    /\ spawned_powerup # None
    /\ active_powerup = None

\* C5: under update and pick_up calls with non-decreasing timestamps,
\* spawned_powerup and active_powerup are never both set.
C5_NeverBoth == ~(spawned_powerup # None /\ active_powerup # None)

\* A power-up spawned after an earlier one was picked up and has expired.
C5_Witness ==
    /\ activation.powerup # None
    /\ spawned_powerup # None
    /\ active_powerup = None

\* C6: after an activation at t0 of a power-up of duration d, every pick_up
\* call with a timestamp below t0 + d returns None and leaves active_powerup
\* and active_ends_at as the activation set them.
C6_PickUpExclusive ==
    [][ ( /\ call'.op = "pick_up"
          /\ activation.powerup # None
          /\ call'.now < activation.at
                           + POWER_UPS[activation.powerup].duration )
        => /\ call'.ret = None
           /\ active_powerup = activation.powerup
           /\ active_powerup' = active_powerup
           /\ active_ends_at' = active_ends_at ]_vars

\* A later pick_up, with a power-up on offer, refused before the expiry.
C6_Witness ==
    /\ call.op = "pick_up"
    /\ call.ret = None
    /\ active_powerup # None
    /\ spawned_powerup # None
    /\ call.now > activation.at
    /\ call.now < active_ends_at

\* C7: update(now) directly followed by update(now) with the same now: the
\* second call changes none of the four fields.
C7_UpdateIdempotent ==
    [][ ( /\ call.op = "update"
          /\ call'.op = "update"
          /\ call'.now = call.now )
        => mgr' = mgr ]_vars

\* update repeated at the timestamp at which the active power-up expired.
C7_Witness ==
    /\ call.op = "update"
    /\ call.again
    /\ activation.powerup # None
    /\ call.now = active_ends_at
    /\ active_powerup = None
    /\ spawned_powerup = None

\* C8 as stated: an update call that observes the expiry of the active
\* power-up and has reached the next_spawn_time threshold spawns in that
\* same call.
C8_Original ==
    [][ ( /\ call'.op = "update"
          /\ active_powerup # None
          /\ call'.now >= active_ends_at
          /\ call'.now >= next_spawn_time )
        => spawned_powerup' # None ]_vars

\* C8 amended: an update call that observes the expiry never spawns in that
\* call: the re-arm, which comes before the spawn test, puts next_spawn_time
\* at least 25 seconds after now.
C8_NoSpawnOnExpiry ==
    [][ ( /\ call'.op = "update"
          /\ active_powerup # None
          /\ active_powerup' = None )
        => /\ spawned_powerup' = spawned_powerup
           /\ next_spawn_time' >= call'.now + 25 ]_vars

\* The expiring update has run: nothing active, nothing spawned, re-armed.
C8_Witness ==
    /\ call.op = "update"
    /\ ~call.again
    /\ activation.powerup # None
    /\ call.now >= active_ends_at
    /\ active_powerup = None
    /\ spawned_powerup = None
    /\ next_spawn_time > call.now

\* C9: spawn() called while a power-up is spawned or active leaves the four
\* fields unchanged.
C9_SpawnNoOp ==
    [][ ( /\ call'.op = "spawn"
          /\ (spawned_powerup # None \/ active_powerup # None) )
        => mgr' = mgr ]_vars

\* C10: right after construction nothing is spawned or active,
\* active_ends_at = 0 and next_spawn_time is within [now + 25, now + 35]
\* of the construction time now.
C10_Constructed ==
    call.op = "init"
    => /\ spawned_powerup = None
       /\ active_powerup = None
       /\ active_ends_at = 0
       /\ next_spawn_time \in (call.now + 25)..(call.now + 35)

\* A manager constructed at a time other than 0.
C10_Witness ==
    /\ call.op = "init"
    /\ call.now > 0
    /\ next_spawn_time > call.now

\* C11: the full cycle.  With T the next_spawn_time of a manager that has
\* activated nothing yet: update(T) puts a catalog entry on offer; pick_up(T)
\* right after it returns that entry and sets active_ends_at = T + duration;
\* update(T + duration) then clears active_powerup, leaves spawned_powerup
\* empty and sets next_spawn_time within [T + duration + 25,
\* T + duration + 35].  The entry is whichever the spawn drew.
C11_FullCycle ==
    [][ /\ ( /\ call'.op = "update"
             /\ activation.powerup = None
             /\ spawned_powerup = None
             /\ active_powerup = None
             /\ call'.now = next_spawn_time )
           => spawned_powerup' \in DOMAIN POWER_UPS
        /\ ( /\ call'.op = "pick_up"
             /\ call.op = "update"
             /\ call.now = next_spawn_time
             /\ call'.now = next_spawn_time
             /\ activation.powerup = None
             /\ spawned_powerup # None )
           => /\ call'.ret = spawned_powerup
              /\ active_powerup' = spawned_powerup
              /\ active_ends_at' =
                    next_spawn_time + POWER_UPS[spawned_powerup].duration
        /\ ( /\ call'.op = "update"
             /\ active_powerup # None
             /\ activation.at = next_spawn_time
             /\ call'.now = next_spawn_time
                              + POWER_UPS[active_powerup].duration )
           => LET e == next_spawn_time + POWER_UPS[active_powerup].duration
              IN  /\ active_powerup' = None
                  /\ spawned_powerup' = None
                  /\ next_spawn_time' \in (e + 25)..(e + 35)
      ]_vars

\* The cycle run to its end with a Legendary entry: constructed at 0 with
\* T = 25, update(25), pick_up(25), update(25 + 45).
C11_Witness ==
    /\ call.op = "update"
    /\ activation.powerup # None
    /\ activation.at = 25
    /\ POWER_UPS[activation.powerup].tier = "Legendary"
    /\ active_ends_at = 70
    /\ call.now = 70
    /\ active_powerup = None
    /\ spawned_powerup = None
    /\ next_spawn_time \in 95..105

\* C12: spawn(), called directly or by update, sets spawned_powerup to an
\* entry of the catalog and leaves active_powerup, active_ends_at and
\* next_spawn_time as they were.
C12_SpawnFrame ==
    [][ ( \/ call'.op = "spawn"
          \/ (call'.op = "update" /\ spawned_powerup' # spawned_powerup) )
        => /\ spawned_powerup' \in DOMAIN POWER_UPS
           /\ active_powerup' = active_powerup
           /\ active_ends_at' = active_ends_at
           /\ next_spawn_time' = next_spawn_time ]_vars

\* A direct spawn() on a manager that has activated nothing yet: an entry is
\* on offer and no expiry has been set.
C12_Witness ==
    /\ call.op = "spawn"
    /\ spawned_powerup \in DOMAIN POWER_UPS
    /\ activation.powerup = None
    /\ active_powerup = None
    /\ active_ends_at = 0

\* C13: the built catalog has 20 entries whose ranks are 1..20 in list
\* order, and each entry's tier, color and duration are those of the table:
\* ranks 1-3 Legendary #FF8000 45s, 4-7 Epic #A335EE 35s, 8-12 Rare #0070FF
\* 30s, 13-16 Uncommon #1EFF00 25s, 17-20 Common #BEBEBE 20s.  The manager
\* refers to entries of this catalog only.
C13_Catalog ==
    /\ { spawned_powerup, active_powerup } \subseteq {None} \cup 1..20
    /\ Len(POWER_UPS) = 20
    /\ DOMAIN POWER_UPS = 1..20
    /\ { POWER_UPS[i].rank : i \in DOMAIN POWER_UPS } = 1..20
    /\ \A i \in DOMAIN POWER_UPS :
         LET p == POWER_UPS[i]
             row == CASE p.rank \in 1..3   -> << "Legendary", "#FF8000", 45 >>
                      [] p.rank \in 4..7   -> << "Epic", "#A335EE", 35 >>
                      [] p.rank \in 8..12  -> << "Rare", "#0070FF", 30 >>
                      [] p.rank \in 13..16 -> << "Uncommon", "#1EFF00", 25 >>
                      [] OTHER             -> << "Common", "#BEBEBE", 20 >>
         IN  /\ p.rank = i
             /\ p.name = POWER_UP_DEFS[i]
             /\ << p.tier, p.color, p.duration >> = row
             /\ \A j \in DOMAIN POWER_UPS :
                  POWER_UPS[j].rank = p.rank
                  => << POWER_UPS[j].tier, POWER_UPS[j].color,
                        POWER_UPS[j].duration >> = row

\* The last entry of the catalog, rank 20 of the Common tier, picked up:
\* its effect ends 20 seconds after the pick-up.
C13_Witness ==
    /\ active_powerup = 20
    /\ POWER_UPS[active_powerup].name = "Happy Hour"
    /\ POWER_UPS[active_powerup].tier = "Common"
    /\ active_ends_at = activation.at + 20

\* C15: active_powerup goes from unset to set only in a pick_up call, and
\* then to the entry that was on offer; update and spawn never set it (they
\* leave it as it was, or update clears it).
C15_ActivatedByPickUpOnly ==
    [][ /\ (active_powerup = None /\ active_powerup' # None)
           => /\ call'.op = "pick_up"
              /\ spawned_powerup # None
              /\ active_powerup' = spawned_powerup
        /\ call'.op \in { "update", "spawn" }
           => active_powerup' \in { active_powerup, None } ]_vars

\* A power-up made active by a pick_up although spawn() had been called
\* directly before: the active entry is the one pick_up returned.
C15_Witness ==
    /\ call.op = "pick_up"
    /\ spawn_calls > 0
    /\ call.ret # None
    /\ active_powerup = call.ret
    /\ activation = [ at |-> call.now, powerup |-> active_powerup ]

\* C16: once spawned_powerup is set, an update call, whatever its timestamp,
\* leaves spawned_powerup, active_powerup, active_ends_at and
\* next_spawn_time unchanged; only pick_up ends the offer.
C16_SpawnedStays ==
    [][ ( /\ call'.op = "update"
          /\ spawned_powerup # None )
        => mgr' = mgr ]_vars

\* C17: under update and pick_up calls, an update(now) that spawns has
\* now >= idle_since + 25, where idle_since is the construction time or the
\* timestamp of the update that cleared the expired power-up, also when
\* that update came later than active_ends_at.
C17_MinSpawnGap ==
    [][ ( /\ call'.op = "update"
          /\ spawned_powerup' # spawned_powerup )
        => call'.now >= idle_since + 25 ]_vars

\* A second spawn, by an update at exactly next_spawn_time, after an expiry
\* that was observed later than active_ends_at.
C17_Witness ==
    /\ call.op = "update"
    /\ ~call.again
    /\ call.now = next_spawn_time
    /\ spawned_powerup # None
    /\ activation.powerup # None
    /\ idle_since > active_ends_at
    /\ call.now >= idle_since + 25

\* C18: after construction, next_spawn_time changes only in an update call
\* that observes an expiry (a power-up was active, now >= active_ends_at, and
\* the call cleared it); pick_up, spawn and every other update leave it as
\* it was.
C18_RearmOnlyOnExpiry ==
    [][ /\ next_spawn_time' # next_spawn_time
           => /\ call'.op = "update"
              /\ active_powerup # None
              /\ call'.now >= active_ends_at
              /\ active_powerup' = None
        /\ ( \/ call'.op \in { "pick_up", "spawn" }
             \/ ( /\ call'.op = "update"
                  /\ ~(active_powerup # None /\ call'.now >= active_ends_at) ) )
           => next_spawn_time' = next_spawn_time ]_vars

\* A spawn by update, a pick_up and a direct spawn() have all happened and
\* next_spawn_time is still the one set at construction.
C18_Witness ==
    /\ call.op = "spawn"
    /\ activation.powerup # None
    /\ active_powerup # None
    /\ idle_since <= MaxStart
    /\ next_spawn_time \in (idle_since + 25)..(idle_since + 35)
    /\ activation.at >= next_spawn_time

\* C19: when the loop keeps calling update with growing timestamps and
\* pick_up whenever a power-up is on offer, a power-up is on offer again and
\* again, and every power-up that becomes active is cleared later.
C19_CycleNeverStuck ==
    /\ []<>(spawned_powerup # None)
    /\ (active_powerup # None) ~> (active_powerup = None)

\* In the endless loop: a power-up on offer after an earlier one was picked
\* up, expired and was cleared.
C19_Witness ==
    /\ call.op = "update"
    /\ call.now = 0
    /\ spawned_powerup # None
    /\ activation.powerup # None
    /\ activation.at = -1
    /\ active_powerup = None
    /\ active_ends_at = -1
====
